---- MODULE Spec2Model ----
(***************************************************************************)
(* Order book simulator: the OrderBook (core/order_book.py), the           *)
(* MatchingEngine (core/order_matching_engine.py), the account manager     *)
(* (core/trader_account.py), the trade broadcast                           *)
(* (websocket/connection_manager.py) and the request handlers of api.py,   *)
(* as one state machine.  Every submit_order request is a thread of the    *)
(* server's thread pool; the broadcast coroutines run on the event loop.   *)
(*                                                                         *)
(* Prices are modelled as positive integers (the code uses floats) and an  *)
(* OrderRequest object is a record in the heap `orders`, addressed by its  *)
(* order_id; the price levels of the book hold order ids, as the deques of *)
(* the code hold references to the same objects.                           *)
(*                                                                         *)
(* Spec is the server with concurrent requests and the event loop;         *)
(* SpecSerial is the server with one client that posts its orders one      *)
(* after the other; SpecEngine is a caller that hands longer sequences of  *)
(* orders to MatchingEngine.process_order; SpecBook is a caller that       *)
(* drives an OrderBook and a MatchingEngine, one call at a time; SpecRead  *)
(* is the server with concurrent order requests and order book reads;      *)
(* SpecChecks is the server with one client, accounts that get deactivated *)
(* and orders the balance does not cover; SpecEngineFair is the engine     *)
(* with a process_order call never suspended; SpecPriority is the engine   *)
(* called with orders of every priority; SpecAccounts is the account       *)
(* manager called directly, together with concurrent POST /traders         *)
(* requests.                                                               *)
(*                                                                         *)
(* AppState.__init__ (api.py:49-54) passes MatchingEngine a fourth         *)
(* argument that MatchingEngine.__init__ does not take; Init is the state  *)
(* the constructor is written to build.                                    *)
(***************************************************************************)
EXTENDS Integers, Sequences, FiniteSets, TLC

\* ---- bounds of the model ----
MaxRequests == 4
MaxConcurrent == 3
MaxInFlight == 2
MaxPrice == 2
MaxQuantity == 2
NumTraders == 2
NumConnections == 1
\* the most orders the client that posts one order after the other posts
MaxSerial == 3
\* the most orders a script that drives the book directly makes
MaxDirect == 3
\* the most orders the client of the specification of the upstream checks posts
MaxChecked == 3
\* the usernames, the most calls and the amount of a credit or debit in the
\* specification of the account manager
NumUsernames == 2
MaxCalls == 4
AmountUnit == 400

\* ---- program constants ----
InitialBalance == 1000
None == 0

BUY == "buy"
SELL == "sell"
Side == {BUY, SELL}
Priority == {2}
\* the members of the Priority enumeration: High, Medium, Low
PriorityValues == {1, 2, 3}

Requests == 1..MaxRequests
Traders == 1..NumTraders
Prices == 1..MaxPrice
Quantities == 1..MaxQuantity
Connections == 1..NumConnections

VARIABLES
  order_book,          \* AppState.order_book: [bids, asks], price key -> FIFO of order ids
  orders,              \* the OrderRequest objects, by order_id
  submitted,           \* history: each OrderRequest as it was submitted
  pc,                  \* position of every submit_order request
  lock,                \* AppState.lock: 0 when free, else the holding request
  clock,               \* time.time()
  generated,           \* history: every Trade in the order process_order made it
  executed_trades,     \* per request: the list process_order returned so far
  accounts,            \* table trader_accounts: trader_id -> [username, balance, active]
  db_orders,           \* table orders: order_id -> [quantity, remaining_quantity, status]
  active_connections,  \* ConnectionManager.active_connections
  loop_queue,          \* broadcast_trade coroutines handed to the event loop, FIFO
  in_flight,           \* send_text calls awaited by asyncio.gather: <<trade index, connection>>
  received,            \* per connection: the trade indexes the subscriber has received
  calls                \* the calls made to the account manager and to POST /traders

vars == <<order_book, orders, submitted, pc, lock, clock, generated,
          executed_trades, accounts, db_orders, active_connections,
          loop_queue, in_flight, received, calls>>

\* ---------------------------------------------------------------------------
\* helpers
\* ---------------------------------------------------------------------------
Min(a, b) == IF a <= b THEN a ELSE b

SetMin(S) == CHOOSE x \in S : \A y \in S : x <= y

Range(s) == {s[i] : i \in 1..Len(s)}

\* deque.remove(x): drops the first occurrence of x
RemoveFirstBad(s, x) == Tail(s)
RemoveFirst(s, x) ==
  LET i == CHOOSE j \in 1..Len(s) : s[j] = x /\ \A k \in 1..(j - 1) : s[k] # x
  IN  [k \in 1..(Len(s) - 1) |-> IF k < i THEN s[k] ELSE s[k + 1]]

\* del d[key]
DropKeyBad(f, key) == [f EXCEPT ![key] = <<>>]
DropKey(f, key) == [k \in (DOMAIN f) \ {key} |-> f[k]]

\* ---------------------------------------------------------------------------
\* OrderBook (core/order_book.py)
\* ---------------------------------------------------------------------------
EmptyBook == [bids |-> <<>>, asks |-> <<>>]

\* bids are keyed by the negated price, asks by the price
PriceKeyBad(order) == order.price
PriceKey(order) == IF order.side = BUY THEN 0 - order.price ELSE order.price

add_orderBad(book, order) ==
  LET key == PriceKey(order)
      book_side == IF order.side = BUY THEN book.bids ELSE book.asks
      level == IF key \in DOMAIN book_side THEN book_side[key] ELSE <<>>
      new_side == [k \in (DOMAIN book_side) \cup {key} |->
                     IF k = key THEN <<order.order_id>> \o level ELSE book_side[k]]
  IN  IF order.side = BUY THEN [book EXCEPT !.bids = new_side]
                          ELSE [book EXCEPT !.asks = new_side]
add_order(book, order) ==
  LET key == PriceKey(order)
      book_side == IF order.side = BUY THEN book.bids ELSE book.asks
      level == IF key \in DOMAIN book_side THEN book_side[key] ELSE <<>>
      new_side == [k \in (DOMAIN book_side) \cup {key} |->
                     IF k = key THEN Append(level, order.order_id) ELSE book_side[k]]
  IN  IF order.side = BUY THEN [book EXCEPT !.bids = new_side]
                          ELSE [book EXCEPT !.asks = new_side]

remove_orderThrough(book, order) ==
  LET key == PriceKey(order)
      book_side == IF order.side = BUY THEN book.bids ELSE book.asks
  IN  IF key \in DOMAIN book_side /\ order.order_id \in Range(book_side[key])
      THEN LET level == book_side[key]
               i == CHOOSE j \in 1..Len(level) : level[j] = order.order_id
               rest == SubSeq(level, i + 1, Len(level))
               new_side == IF rest = <<>> THEN DropKey(book_side, key)
                           ELSE [book_side EXCEPT ![key] = rest]
           IN  IF order.side = BUY THEN [book EXCEPT !.bids = new_side]
                                   ELSE [book EXCEPT !.asks = new_side]
      ELSE book
remove_orderBad(book, order) ==
  LET key == PriceKey(order)
      book_side == IF order.side = BUY THEN book.bids ELSE book.asks
  IN  IF key \in DOMAIN book_side
      THEN LET rest == IF order.order_id \in Range(book_side[key])
                       THEN RemoveFirst(book_side[key], order.order_id)
                       ELSE Tail(book_side[key])
               new_side == IF rest = <<>> THEN DropKey(book_side, key)
                           ELSE [book_side EXCEPT ![key] = rest]
           IN  IF order.side = BUY THEN [book EXCEPT !.bids = new_side]
                                   ELSE [book EXCEPT !.asks = new_side]
      ELSE book
remove_order(book, order) ==
  LET key == PriceKey(order)
      book_side == IF order.side = BUY THEN book.bids ELSE book.asks
  IN  IF key \in DOMAIN book_side /\ order.order_id \in Range(book_side[key])
      THEN LET rest == RemoveFirst(book_side[key], order.order_id)
               new_side == IF rest = <<>> THEN DropKey(book_side, key)
                           ELSE [book_side EXCEPT ![key] = rest]
           IN  IF order.side = BUY THEN [book EXCEPT !.bids = new_side]
                                   ELSE [book EXCEPT !.asks = new_side]
      ELSE book

\* SortedDict.peekitem(0)[0]: the smallest key
FirstKeyBad(side_map) == CHOOSE x \in DOMAIN side_map : \A y \in DOMAIN side_map : y <= x
FirstKey(side_map) == SetMin(DOMAIN side_map)

best_bidBad(book) == IF DOMAIN book.bids = {} THEN None ELSE 0 - FirstKeyBad(book.bids)
best_bid(book) == IF DOMAIN book.bids = {} THEN None ELSE 0 - FirstKey(book.bids)

best_askBad(book) == IF DOMAIN book.asks = {} THEN None ELSE FirstKeyBad(book.asks)
best_ask(book) == IF DOMAIN book.asks = {} THEN None ELSE FirstKey(book.asks)

\* "sum(order.quantity for order in best_bid_orders)"
SumQuantityBad(level, heap) == Len(level)
RECURSIVE SumQuantity(_, _)
SumQuantity(level, heap) ==
  IF level = <<>> THEN 0
  ELSE heap[Head(level)].quantity + SumQuantity(Tail(level), heap)

get_best_bid_volume(book, heap) ==
  IF DOMAIN book.bids = {} THEN None
  ELSE SumQuantity(book.bids[FirstKey(book.bids)], heap)

get_best_ask_volume(book, heap) ==
  IF DOMAIN book.asks = {} THEN None
  ELSE SumQuantity(book.asks[FirstKey(book.asks)], heap)

\* every order id held by the book
BidIds(book) == UNION {Range(book.bids[k]) : k \in DOMAIN book.bids}
AskIds(book) == UNION {Range(book.asks[k]) : k \in DOMAIN book.asks}
BookIds(book) == BidIds(book) \cup AskIds(book)

\* ---------------------------------------------------------------------------
\* Trade (config/trade.py)
\* ---------------------------------------------------------------------------
\* The fields the pydantic model declares (trade_id and timestamp are
\* generated and not modelled).  A BaseModel ignores keyword arguments that
\* are not declared fields.
TradeFieldsBad == {"maker_order_id", "taker_order_id", "price", "quantity", "taker_side",
                   "maker_trader_id", "taker_trader_id"}
TradeFields == {"maker_order_id", "taker_order_id", "price", "quantity", "taker_side"}

Trade(kwargs) == [f \in (DOMAIN kwargs) \cap TradeFields |-> kwargs[f]]

\* reading an attribute the model does not have raises AttributeError
HasAttr(obj, name) == name \in DOMAIN obj

\* ---------------------------------------------------------------------------
\* MatchingEngine (core/order_matching_engine.py)
\* ---------------------------------------------------------------------------
\* the test of the scan for a maker: a resting order of another trader
IsEligibleBad(order, taker_order) == TRUE
IsEligible(order, taker_order) == order.trader_id # taker_order.trader_id

\* "for order in orders_at_best: if order.trader_id != taker_order.trader_id:
\*  maker_order = order; break"; None when the level holds no such order
FirstMakerByPriority(level, taker_order, heap) ==
  LET idx == {i \in 1..Len(level) : IsEligible(heap[level[i]], taker_order)}
      top == {i \in idx : \A j \in idx : heap[level[i]].priority <= heap[level[j]].priority}
  IN  IF idx = {} THEN None ELSE level[SetMin(top)]
FirstMaker(level, taker_order, heap) ==
  LET idx == {i \in 1..Len(level) : IsEligible(heap[level[i]], taker_order)}
  IN  IF idx = {} THEN None ELSE level[SetMin(idx)]

\* the loop condition of _match_buy_order
BuyLoopConditionBad(book, taker_order) ==
  /\ taker_order.quantity > 0
  /\ best_ask(book) # None
BuyLoopCondition(book, taker_order) ==
  /\ taker_order.quantity > 0
  /\ best_ask(book) # None
  /\ taker_order.price >= best_ask(book)

\* the loop condition of _match_sell_order
SellLoopConditionBad(book, taker_order) ==
  /\ taker_order.quantity > 0
  /\ best_bid(book) # None
SellLoopCondition(book, taker_order) ==
  /\ taker_order.quantity > 0
  /\ best_bid(book) # None
  /\ taker_order.price <= best_bid(book)

\* the maker _match_buy_order picks in this iteration (None: break)
BuyMakerBad(book, taker_order, heap) ==
  LET keys == {k \in DOMAIN book.asks :
                 /\ k <= taker_order.price
                 /\ FirstMaker(book.asks[k], taker_order, heap) # None}
  IN  IF keys = {} THEN None
      ELSE FirstMaker(book.asks[SetMin(keys)], taker_order, heap)
BuyMaker(book, taker_order, heap) ==
  FirstMaker(book.asks[best_ask(book)], taker_order, heap)

\* the maker _match_sell_order picks in this iteration (None: break)
SellMakerBad(book, taker_order, heap) ==
  LET level == book.bids[0 - best_bid(book)]
      idx == {i \in 1..Len(level) : IsEligible(heap[level[i]], taker_order)}
  IN  IF idx = {} THEN None
      ELSE level[CHOOSE i \in idx : \A j \in idx : j <= i]
SellMaker(book, taker_order, heap) ==
  FirstMaker(book.bids[0 - best_bid(book)], taker_order, heap)

trade_quantityBad(taker_order, maker_order) == taker_order.quantity
trade_quantity(taker_order, maker_order) == Min(taker_order.quantity, maker_order.quantity)

TradePriceBad(maker_order, taker_order) == taker_order.price
TradePrice(maker_order, taker_order) == maker_order.price

MakeTrade(maker_order, taker_order) ==
  Trade([maker_order_id |-> maker_order.order_id,
         maker_trader_id |-> maker_order.trader_id,
         taker_order_id |-> taker_order.order_id,
         taker_trader_id |-> taker_order.trader_id,
         price |-> TradePrice(maker_order, taker_order),
         quantity |-> trade_quantity(taker_order, maker_order),
         taker_side |-> taker_order.side])

\* "if order_request.quantity > 0: self.order_book.add_order(order_request)"
ShouldRestBad(order_request) == FALSE
ShouldRestAlways(order_request) == TRUE
ShouldRest(order_request) == order_request.quantity > 0

\* ---------------------------------------------------------------------------
\* TraderAccountManager (core/trader_account.py)
\* ---------------------------------------------------------------------------
\* update_balance: [ok, accounts]; ok = FALSE is the ValueError, and nothing
\* is written.  Each call commits in a database session of its own.
update_balanceBad(accs, trader_id, amount) ==
  IF trader_id \notin DOMAIN accs
  THEN [ok |-> FALSE, accounts |-> accs]
  ELSE [ok |-> TRUE,
        accounts |-> [accs EXCEPT ![trader_id].balance = @ + amount]]
update_balance(accs, trader_id, amount) ==
  IF trader_id \notin DOMAIN accs
  THEN [ok |-> FALSE, accounts |-> accs]
  ELSE LET new_balance == accs[trader_id].balance + amount
       IN  IF new_balance < 0
           THEN [ok |-> FALSE, accounts |-> accs]
           ELSE [ok |-> TRUE,
                 accounts |-> [accs EXCEPT ![trader_id].balance = new_balance]]

\* ---------------------------------------------------------------------------
\* submit_order, after process_order returned (api.py, lines 224-275)
\* ---------------------------------------------------------------------------
\* One trade of the "for trade in executed_trades" loop.  dbo is the state of
\* the open session (written to the table only by the final commit); the
\* balance updates are committed one by one.
SettleOneTakerOnly(trade, accs, dbo) ==
  LET taker_id == submitted[trade.taker_order_id].trader_id
      trade_value == trade.price * trade.quantity
      first == IF trade.taker_side = BUY
               THEN update_balance(accs, taker_id, 0 - trade_value)
               ELSE update_balance(accs, taker_id, trade_value)
  IN  [ok |-> first.ok, accounts |-> first.accounts, db_orders |-> dbo]
SettleOne(trade, accs, dbo) ==
  IF ~(HasAttr(trade, "taker_trader_id") /\ HasAttr(trade, "maker_trader_id"))
  THEN [ok |-> FALSE, accounts |-> accs, db_orders |-> dbo]
  ELSE
    LET trade_value == trade.price * trade.quantity
        dec(d, id) ==
          IF id \in DOMAIN d
          THEN LET rem == d[id].remaining_quantity - trade.quantity
               IN  [d EXCEPT ![id].remaining_quantity = rem,
                             ![id].status = IF rem <= 0 THEN "FILLED" ELSE @]
          ELSE d
        dbo2 == dec(dec(dbo, trade.taker_order_id), trade.maker_order_id)
        taker_id == trade.taker_trader_id
        maker_id == trade.maker_trader_id
        first == IF trade.taker_side = BUY
                 THEN update_balance(accs, taker_id, 0 - trade_value)
                 ELSE update_balance(accs, taker_id, trade_value)
        second == IF trade.taker_side = BUY
                  THEN update_balance(first.accounts, maker_id, trade_value)
                  ELSE update_balance(first.accounts, maker_id, 0 - trade_value)
    IN  IF ~first.ok THEN [ok |-> FALSE, accounts |-> accs, db_orders |-> dbo2]
        ELSE [ok |-> second.ok, accounts |-> second.accounts, db_orders |-> dbo2]

RECURSIVE SettleAll(_, _, _)
SettleAll(trades, accs, dbo) ==
  IF trades = <<>> THEN [ok |-> TRUE, accounts |-> accs, db_orders |-> dbo]
  ELSE LET one == SettleOne(Head(trades), accs, dbo)
       IN  IF ~one.ok THEN one
           ELSE SettleAll(Tail(trades), one.accounts, one.db_orders)

\* ---------------------------------------------------------------------------
\* the state machine
\* ---------------------------------------------------------------------------
Init ==
  /\ order_book = EmptyBook
  /\ orders = <<>>
  /\ submitted = <<>>
  /\ pc = [r \in Requests |-> "new"]
  /\ lock = 0
  /\ clock = 1
  /\ generated = <<>>
  /\ executed_trades = [r \in Requests |-> <<>>]
  /\ accounts = <<>>
  /\ db_orders = <<>>
  /\ active_connections = <<>>
  /\ loop_queue = <<>>
  /\ in_flight = {}
  /\ received = [c \in Connections |-> <<>>]
  /\ calls = <<>>

\* the lock of "with state.lock" can be taken
LockAvailableBad == TRUE
LockAvailable == lock = 0

\* POST /traders for a username that is not registered yet (api.py create_trader,
\* register_trader): the whole handler runs under the lock
create_trader(t) ==
  /\ LockAvailable
  /\ t \notin DOMAIN accounts
  /\ \A u \in Traders : u < t => u \in DOMAIN accounts
  /\ accounts' = [u \in (DOMAIN accounts) \cup {t} |->
                    IF u = t THEN [username |-> t, balance |-> InitialBalance,
                                  active |-> TRUE]
                    ELSE accounts[u]]
  /\ UNCHANGED <<order_book, orders, submitted, pc, lock, clock, generated,
                 executed_trades, db_orders, active_connections, loop_queue,
                 in_flight, received, calls>>

\* ConnectionManager.connect
connect(c) ==
  /\ c \notin Range(active_connections)
  /\ \A d \in Connections : d < c => d \in Range(active_connections)
  /\ active_connections' = Append(active_connections, c)
  /\ UNCHANGED <<order_book, orders, submitted, pc, lock, clock, generated,
                 executed_trades, accounts, db_orders, loop_queue, in_flight,
                 received, calls>>

\* the requests a worker thread of the server is handling
InFlight == {x \in Requests : pc[x] \in {"received", "checked", "matching", "settling"}}

\* The request body is parsed into an OrderRequest: order_id = uuid4() and
\* timestamp = time.time() are assigned here, before the handler runs.
NewRequest(r, t, s, p, q, prio) ==
  /\ pc[r] = "new"
  /\ \A x \in Requests : x < r => pc[x] # "new"
  /\ LET o == [order_id |-> r, timestamp |-> clock, trader_id |-> t, side |-> s,
               priority |-> prio, price |-> p, quantity |-> q]
     IN  /\ orders' = [x \in (DOMAIN orders) \cup {r} |-> IF x = r THEN o ELSE orders[x]]
         /\ submitted' = [x \in (DOMAIN submitted) \cup {r} |-> IF x = r THEN o ELSE submitted[x]]
  /\ clock' = clock + 1
  /\ pc' = [pc EXCEPT ![r] = "received"]
  /\ UNCHANGED <<order_book, lock, generated, executed_trades, accounts,
                 db_orders, active_connections, loop_queue, in_flight, received,
                 calls>>

\* submit_order, lines 182-200: the upstream checks, made without the lock
UpstreamChecksPassBad(accs, order_request) ==
  /\ order_request.trader_id \in DOMAIN accs
  /\ accs[order_request.trader_id].active
UpstreamChecksPass(accs, order_request) ==
  /\ order_request.trader_id \in DOMAIN accs
  /\ accs[order_request.trader_id].active
  /\ order_request.side = BUY =>
       accs[order_request.trader_id].balance >= order_request.price * order_request.quantity

upstream_checks(r) ==
  /\ pc[r] = "received"
  /\ pc' = [pc EXCEPT ![r] = IF UpstreamChecksPass(accounts, orders[r])
                             THEN "checked" ELSE "rejected"]
  /\ UNCHANGED <<order_book, orders, submitted, lock, clock, generated,
                 executed_trades, accounts, db_orders, active_connections,
                 loop_queue, in_flight, received, calls>>

\* submit_order, lines 205-219: take the lock and store the order
acquire_lock(r) ==
  /\ pc[r] = "checked"
  /\ LockAvailable
  /\ lock' = r
  /\ db_orders' = [x \in (DOMAIN db_orders) \cup {r} |->
                     IF x = r THEN [quantity |-> orders[r].quantity,
                                    remaining_quantity |-> orders[r].quantity,
                                    status |-> "ACTIVE"]
                     ELSE db_orders[x]]
  /\ pc' = [pc EXCEPT ![r] = "matching"]
  /\ UNCHANGED <<order_book, orders, submitted, clock, generated,
                 executed_trades, accounts, active_connections, loop_queue,
                 in_flight, received, calls>>

\* the body of one iteration of the matching loop, lines 80-99 / 136-154
FillRequeue(r, maker_id) ==
  LET taker_order == orders[r]
      maker_order == orders[maker_id]
      trade == MakeTrade(maker_order, taker_order)
      qty == trade_quantity(taker_order, maker_order)
      maker_after == [maker_order EXCEPT !.quantity = @ - qty]
  IN  /\ generated' = Append(generated, trade)
      /\ loop_queue' = Append(loop_queue, Len(generated) + 1)
      /\ executed_trades' = [executed_trades EXCEPT ![r] = Append(@, trade)]
      /\ orders' = [orders EXCEPT ![r].quantity = @ - qty,
                                  ![maker_id].quantity = @ - qty]
      /\ order_book' = IF maker_after.quantity = 0
                       THEN remove_order(order_book, maker_after)
                       ELSE add_order(remove_order(order_book, maker_after), maker_after)
FillNoRemove(r, maker_id) ==
  LET taker_order == orders[r]
      maker_order == orders[maker_id]
      trade == MakeTrade(maker_order, taker_order)
      qty == trade_quantity(taker_order, maker_order)
  IN  /\ generated' = Append(generated, trade)
      /\ loop_queue' = Append(loop_queue, Len(generated) + 1)
      /\ executed_trades' = [executed_trades EXCEPT ![r] = Append(@, trade)]
      /\ orders' = [orders EXCEPT ![r].quantity = @ - qty,
                                  ![maker_id].quantity = @ - qty]
      /\ order_book' = order_book
Fill(r, maker_id) ==
  LET taker_order == orders[r]
      maker_order == orders[maker_id]
      trade == MakeTrade(maker_order, taker_order)
      qty == trade_quantity(taker_order, maker_order)
      maker_after == [maker_order EXCEPT !.quantity = @ - qty]
  IN  /\ generated' = Append(generated, trade)
      /\ loop_queue' = Append(loop_queue, Len(generated) + 1)
      /\ executed_trades' = [executed_trades EXCEPT ![r] = Append(@, trade)]
      /\ orders' = [orders EXCEPT ![r].quantity = @ - qty,
                                  ![maker_id].quantity = @ - qty]
      /\ order_book' = IF maker_after.quantity = 0
                       THEN remove_order(order_book, maker_after)
                       ELSE order_book

\* one iteration of the while loop of _match_buy_order that makes a trade
match_buy_order(r) ==
  /\ pc[r] = "matching"
  /\ orders[r].side = BUY
  /\ BuyLoopCondition(order_book, orders[r])
  /\ BuyMaker(order_book, orders[r], orders) # None
  /\ Fill(r, BuyMaker(order_book, orders[r], orders))
  /\ UNCHANGED <<submitted, pc, lock, clock, accounts, db_orders,
                 active_connections, in_flight, received, calls>>

\* one iteration of the while loop of _match_sell_order that makes a trade
match_sell_order(r) ==
  /\ pc[r] = "matching"
  /\ orders[r].side = SELL
  /\ SellLoopCondition(order_book, orders[r])
  /\ SellMaker(order_book, orders[r], orders) # None
  /\ Fill(r, SellMaker(order_book, orders[r], orders))
  /\ UNCHANGED <<submitted, pc, lock, clock, accounts, db_orders,
                 active_connections, in_flight, received, calls>>

\* the matching loop of the request's side goes on with another trade
LoopGoesOnBad(book, taker_order, heap) == FALSE
LoopGoesOn(book, taker_order, heap) ==
  IF taker_order.side = BUY
  THEN BuyLoopCondition(book, taker_order) /\ BuyMaker(book, taker_order, heap) # None
  ELSE SellLoopCondition(book, taker_order) /\ SellMaker(book, taker_order, heap) # None

\* the loop ends (condition false, or break); process_order, lines 39-44:
\* the remainder rests and the trades are returned
process_order_return(r) ==
  /\ pc[r] = "matching"
  /\ ~LoopGoesOn(order_book, orders[r], orders)
  /\ order_book' = IF ShouldRest(orders[r]) THEN add_order(order_book, orders[r])
                   ELSE order_book
  /\ pc' = [pc EXCEPT ![r] = "settling"]
  /\ UNCHANGED <<orders, submitted, lock, clock, generated, executed_trades,
                 accounts, db_orders, active_connections, loop_queue, in_flight,
                 received, calls>>

\* submit_order, lines 224-277: record and settle the returned trades, commit,
\* release the lock.  An exception rolls the session back (the balance updates
\* already committed stay) and leaves the "with state.lock" block.
settle(r) ==
  /\ pc[r] = "settling"
  /\ LET res == SettleAll(executed_trades[r], accounts, db_orders)
     IN  /\ accounts' = res.accounts
         /\ db_orders' = IF res.ok THEN res.db_orders ELSE db_orders
         /\ pc' = [pc EXCEPT ![r] = IF res.ok THEN "done" ELSE "failed"]
  /\ lock' = 0
  /\ UNCHANGED <<order_book, orders, submitted, clock, generated,
                 executed_trades, active_connections, loop_queue, in_flight,
                 received, calls>>

\* The event loop runs the next broadcast_trade coroutine up to its await:
\* one send_text per connection of active_connections, awaited by gather.
broadcast_trade ==
  /\ loop_queue # <<>>
  /\ in_flight' = in_flight \cup
                  {<<Head(loop_queue), active_connections[i]>> :
                     i \in 1..Len(active_connections)}
  /\ loop_queue' = Tail(loop_queue)
  /\ UNCHANGED <<order_book, orders, submitted, pc, lock, clock, generated,
                 executed_trades, accounts, db_orders, active_connections,
                 received, calls>>

\* one awaited send_text completes: the subscriber receives the trade
send_text(k, c) ==
  /\ <<k, c>> \in in_flight
  /\ in_flight' = in_flight \ {<<k, c>>}
  /\ received' = [received EXCEPT ![c] = Append(@, k)]
  /\ UNCHANGED <<order_book, orders, submitted, pc, lock, clock, generated,
                 executed_trades, accounts, db_orders, active_connections,
                 loop_queue, calls>>

\* a client posts an order while at most MaxInFlight - 1 others are being handled
ConcurrentRequest(r, t, s, p, q, prio) ==
  /\ r <= MaxConcurrent
  /\ Cardinality(InFlight) < MaxInFlight
  /\ NewRequest(r, t, s, p, q, prio)

\* a client posts an order after the response to the previous one
SerialRequest(r, t, s, p, q, prio) ==
  /\ InFlight = {}
  /\ NewRequest(r, t, s, p, q, prio)

\* the server: concurrent requests and the event loop
Next ==
  \/ \E t \in Traders : create_trader(t)
  \/ \E c \in Connections : connect(c)
  \/ \E r \in Requests, t \in Traders, s \in Side, p \in Prices, q \in Quantities,
        prio \in Priority : ConcurrentRequest(r, t, s, p, q, prio)
  \/ \E r \in Requests : upstream_checks(r)
  \/ \E r \in Requests : acquire_lock(r)
  \/ \E r \in Requests : match_buy_order(r)
  \/ \E r \in Requests : match_sell_order(r)
  \/ \E r \in Requests : process_order_return(r)
  \/ \E r \in Requests : settle(r)
  \/ broadcast_trade
  \/ \E k \in 1..Len(generated), c \in Connections : send_text(k, c)

Spec == Init /\ [][Next]_vars

\* the server with one client that posts its orders one after the other
NextSerial ==
  \/ \E t \in Traders : create_trader(t)
  \/ \E r \in 1..MaxSerial, t \in Traders, s \in Side, p \in Prices,
        q \in Quantities, prio \in Priority : SerialRequest(r, t, s, p, q, prio)
  \/ \E r \in Requests : upstream_checks(r)
  \/ \E r \in Requests : acquire_lock(r)
  \/ \E r \in Requests : match_buy_order(r)
  \/ \E r \in Requests : match_sell_order(r)
  \/ \E r \in Requests : process_order_return(r)
  \/ \E r \in Requests : settle(r)

SpecSerial == Init /\ [][NextSerial]_vars

\* A script that owns the book and the engine itself and makes one call at a
\* time (order_book.py, lines 156-205; examples/simulation.py)
ScriptIdle == \A x \in Requests : pc[x] \notin {"received", "checked", "matching"}

\* OrderBook.add_order called directly with a new order
book_add_order(r, t, s, p, q, prio) ==
  /\ ScriptIdle
  /\ r <= MaxDirect
  /\ pc[r] = "new"
  /\ \A x \in Requests : x < r => pc[x] # "new"
  /\ LET o == [order_id |-> r, timestamp |-> clock, trader_id |-> t, side |-> s,
               priority |-> prio, price |-> p, quantity |-> q]
     IN  /\ orders' = [x \in (DOMAIN orders) \cup {r} |-> IF x = r THEN o ELSE orders[x]]
         /\ submitted' = [x \in (DOMAIN submitted) \cup {r} |-> IF x = r THEN o ELSE submitted[x]]
         /\ order_book' = add_order(order_book, o)
  /\ clock' = clock + 1
  /\ pc' = [pc EXCEPT ![r] = "added"]
  /\ UNCHANGED <<lock, generated, executed_trades, accounts, db_orders,
                 active_connections, loop_queue, in_flight, received, calls>>

\* OrderBook.remove_order called directly with a copy of an order made
\* earlier, the copy carrying quantity q
book_remove_order(o, q) ==
  /\ ScriptIdle
  /\ o \in DOMAIN orders
  /\ order_book' = remove_order(order_book, [orders[o] EXCEPT !.quantity = q])
  /\ UNCHANGED <<orders, submitted, pc, lock, clock, generated, executed_trades,
                 accounts, db_orders, active_connections, loop_queue, in_flight,
                 received, calls>>

\* MatchingEngine.process_order called directly with a new order: the call
\* enters the matching loop of the order's side
engine_process_order(r, t, s, p, q, prio) ==
  /\ ScriptIdle
  /\ pc[r] = "new"
  /\ \A x \in Requests : x < r => pc[x] # "new"
  /\ LET o == [order_id |-> r, timestamp |-> clock, trader_id |-> t, side |-> s,
               priority |-> prio, price |-> p, quantity |-> q]
     IN  /\ orders' = [x \in (DOMAIN orders) \cup {r} |-> IF x = r THEN o ELSE orders[x]]
         /\ submitted' = [x \in (DOMAIN submitted) \cup {r} |-> IF x = r THEN o ELSE submitted[x]]
  /\ clock' = clock + 1
  /\ pc' = [pc EXCEPT ![r] = "matching"]
  /\ UNCHANGED <<order_book, lock, generated, executed_trades, accounts,
                 db_orders, active_connections, loop_queue, in_flight, received,
                 calls>>

\* the order book and the engine used directly, one call at a time
NextBook ==
  \/ \E r \in Requests, t \in Traders, s \in Side, p \in Prices, q \in Quantities,
        prio \in Priority : book_add_order(r, t, s, p, q, prio)
  \/ \E o \in Requests, q \in Quantities : book_remove_order(o, q)
  \/ \E r \in 1..MaxDirect, t \in Traders, s \in Side, p \in Prices,
        q \in Quantities, prio \in Priority :
        engine_process_order(r, t, s, p, q, prio)
  \/ \E r \in Requests : match_buy_order(r)
  \/ \E r \in Requests : match_sell_order(r)
  \/ \E r \in Requests : process_order_return(r)

SpecBook == Init /\ [][NextBook]_vars

\* the value of lock while a get_order_book request holds it
Reader == MaxRequests + 1

\* GET /orderbook, line 319: "with state.lock" is entered
get_order_book_enter ==
  /\ LockAvailable
  /\ lock' = Reader
  /\ UNCHANGED <<order_book, orders, submitted, pc, clock, generated,
                 executed_trades, accounts, db_orders, active_connections,
                 loop_queue, in_flight, received, calls>>

\* GET /orderbook, lines 320-330: the levels of both sides have been read and
\* the "with state.lock" block is left
get_order_book_return ==
  /\ lock = Reader
  /\ lock' = 0
  /\ UNCHANGED <<order_book, orders, submitted, pc, clock, generated,
                 executed_trades, accounts, db_orders, active_connections,
                 loop_queue, in_flight, received, calls>>

\* the server with concurrent order requests and order book reads
NextRead ==
  \/ \E t \in Traders : create_trader(t)
  \/ \E r \in Requests, t \in Traders, s \in Side, p \in Prices, q \in Quantities,
        prio \in Priority : ConcurrentRequest(r, t, s, p, q, prio)
  \/ \E r \in Requests : upstream_checks(r)
  \/ \E r \in Requests : acquire_lock(r)
  \/ \E r \in Requests : match_buy_order(r)
  \/ \E r \in Requests : match_sell_order(r)
  \/ \E r \in Requests : process_order_return(r)
  \/ \E r \in Requests : settle(r)
  \/ get_order_book_enter
  \/ get_order_book_return

SpecRead == Init /\ [][NextRead]_vars

\* a price at which a BUY order of MaxQuantity costs more than the balance an
\* account is registered with
HighPrice == (InitialBalance \div MaxQuantity) + 1

\* TraderAccountManager.deactivate_account (no endpoint calls it; it does not
\* take the lock)
deactivate_account(t) ==
  /\ t \in DOMAIN accounts
  /\ accounts' = [accounts EXCEPT ![t].active = FALSE]
  /\ UNCHANGED <<order_book, orders, submitted, pc, lock, clock, generated,
                 executed_trades, db_orders, active_connections, loop_queue,
                 in_flight, received, calls>>

\* a client posts an order, at a low or at a high price, after the response
\* to the previous one
CheckedRequest(r, t, s, p, q, prio) ==
  /\ r <= MaxChecked
  /\ InFlight = {}
  /\ NewRequest(r, t, s, p, q, prio)

\* the server with one client, accounts that are deactivated, and orders the
\* balance does not cover
NextChecks ==
  \/ \E t \in Traders : create_trader(t)
  \/ \E t \in Traders : deactivate_account(t)
  \/ \E r \in Requests, t \in Traders, s \in Side, p \in Prices \cup {HighPrice},
        q \in Quantities, prio \in Priority : CheckedRequest(r, t, s, p, q, prio)
  \/ \E r \in Requests : upstream_checks(r)
  \/ \E r \in Requests : acquire_lock(r)
  \/ \E r \in Requests : match_buy_order(r)
  \/ \E r \in Requests : match_sell_order(r)
  \/ \E r \in Requests : process_order_return(r)
  \/ \E r \in Requests : settle(r)

SpecChecks == Init /\ [][NextChecks]_vars

\* ---------------------------------------------------------------------------
\* The engine called with orders of every priority
\* ---------------------------------------------------------------------------
\* MatchingEngine.process_order called directly, one call at a time, the
\* priority of each order drawn from the whole enumeration
NextPriority ==
  \/ \E r \in 1..MaxDirect, t \in Traders, s \in Side, p \in Prices,
        q \in Quantities, prio \in PriorityValues :
        engine_process_order(r, t, s, p, q, prio)
  \/ \E r \in Requests : match_buy_order(r)
  \/ \E r \in Requests : match_sell_order(r)
  \/ \E r \in Requests : process_order_return(r)

SpecPriority == Init /\ [][NextPriority]_vars

\* ---------------------------------------------------------------------------
\* The engine called with longer sequences of orders
\* ---------------------------------------------------------------------------
\* MatchingEngine.process_order called directly, one call at a time, with as
\* many orders as the client of the server posts
NextEngine ==
  \/ \E r \in Requests, t \in Traders, s \in Side, p \in Prices, q \in Quantities,
        prio \in Priority : engine_process_order(r, t, s, p, q, prio)
  \/ \E r \in Requests : match_buy_order(r)
  \/ \E r \in Requests : match_sell_order(r)
  \/ \E r \in Requests : process_order_return(r)

SpecEngine == Init /\ [][NextEngine]_vars

\* a step of a process_order call in progress: the call is sequential code
\* that nothing suspends, so a step that stays enabled is taken
process_order_step ==
  \E r \in Requests :
    match_buy_order(r) \/ match_sell_order(r) \/ process_order_return(r)

\* the engine called directly with the shorter sequences of orders
NextEngineShort ==
  \/ \E r \in 1..MaxDirect, t \in Traders, s \in Side, p \in Prices,
        q \in Quantities, prio \in Priority :
        engine_process_order(r, t, s, p, q, prio)
  \/ \E r \in Requests : match_buy_order(r)
  \/ \E r \in Requests : match_sell_order(r)
  \/ \E r \in Requests : process_order_return(r)

SpecEngineFair ==
  Init /\ [][NextEngineShort]_vars /\ WF_vars(process_order_step)

\* ---------------------------------------------------------------------------
\* The account manager (core/trader_account.py) and POST /traders
\* ---------------------------------------------------------------------------
Usernames == 1..NumUsernames

\* trader ids passed to the manager: those of the accounts that can exist and
\* one that is never registered
TraderIds == 1..(NumUsernames + 1)

\* amounts passed to update_balance: a credit, a debit, the debit that empties
\* a new account and the debit that is above its balance
Amounts == {AmountUnit, 0 - AmountUnit, 0 - InitialBalance, 0 - (InitialBalance + 1)}

\* the trader with a username, None when there is none
get_trader_by_username(accs, username) ==
  IF \E t \in DOMAIN accs : accs[t].username = username
  THEN CHOOSE t \in DOMAIN accs : accs[t].username = username
  ELSE None

\* register_trader: raises ValueError when the username exists, else adds an
\* active account with the initial balance under a new trader id
register_traderBad(accs, username) ==
  LET trader_id == Cardinality(DOMAIN accs) + 1
  IN  [ok |-> TRUE, trader_id |-> trader_id,
       accounts |-> [t \in (DOMAIN accs) \cup {trader_id} |->
                       IF t = trader_id
                       THEN [username |-> username, balance |-> InitialBalance,
                             active |-> TRUE]
                       ELSE accs[t]]]
register_trader(accs, username) ==
  IF \E t \in DOMAIN accs : accs[t].username = username
  THEN [ok |-> FALSE, trader_id |-> None, accounts |-> accs]
  ELSE LET trader_id == Cardinality(DOMAIN accs) + 1
       IN  [ok |-> TRUE, trader_id |-> trader_id,
            accounts |-> [t \in (DOMAIN accs) \cup {trader_id} |->
                            IF t = trader_id
                            THEN [username |-> username, balance |-> InitialBalance,
                                  active |-> TRUE]
                            ELSE accs[t]]]

\* the value of the lock while the k-th call, a POST /traders handler, holds it
Handler(k) == Reader + k

\* no POST /traders handler is running
HandlersIdle == \A k \in 1..Len(calls) : calls[k].status # "running"

\* POST /traders, lines 89-91: the handler takes the lock and looks the
\* username up
create_trader_enter(username) ==
  /\ Len(calls) < MaxCalls
  /\ LockAvailable
  /\ lock' = Handler(Len(calls) + 1)
  /\ calls' = Append(calls, [op |-> "create_trader", username |-> username,
                             trader_id |-> None, amount |-> 0,
                             found |-> get_trader_by_username(accounts, username),
                             status |-> "running"])
  /\ UNCHANGED <<order_book, orders, submitted, pc, clock, generated,
                 executed_trades, accounts, db_orders, active_connections,
                 loop_queue, in_flight, received>>

\* POST /traders, lines 92-110: the account found is returned, or the trader
\* is registered (ValueError becomes HTTP 400); the lock is released
create_trader_return(k) ==
  /\ k \in 1..Len(calls)
  /\ calls[k].op = "create_trader"
  /\ calls[k].status = "running"
  /\ IF calls[k].found # None
     THEN /\ accounts' = accounts
          /\ calls' = [calls EXCEPT ![k].status = "returned",
                                    ![k].trader_id = calls[k].found]
     ELSE LET res == register_trader(accounts, calls[k].username)
          IN  /\ accounts' = res.accounts
              /\ calls' = [calls EXCEPT ![k].status = IF res.ok THEN "returned"
                                                      ELSE "raised",
                                        ![k].trader_id = res.trader_id]
  /\ lock' = 0
  /\ UNCHANGED <<order_book, orders, submitted, pc, clock, generated,
                 executed_trades, db_orders, active_connections, loop_queue,
                 in_flight, received>>

\* TraderAccountManager.register_trader called directly (as the script at the
\* end of trader_account.py does), while the server handles no request
manager_register_trader(username) ==
  /\ Len(calls) < MaxCalls
  /\ HandlersIdle
  /\ LET res == register_trader(accounts, username)
     IN  /\ accounts' = res.accounts
         /\ calls' = Append(calls, [op |-> "register_trader", username |-> username,
                                    trader_id |-> res.trader_id, amount |-> 0,
                                    found |-> None,
                                    status |-> IF res.ok THEN "returned"
                                               ELSE "raised"])
  /\ UNCHANGED <<order_book, orders, submitted, pc, lock, clock, generated,
                 executed_trades, db_orders, active_connections, loop_queue,
                 in_flight, received>>

\* TraderAccountManager.update_balance called directly
manager_update_balance(trader_id, amount) ==
  /\ Len(calls) < MaxCalls
  /\ HandlersIdle
  /\ LET res == update_balance(accounts, trader_id, amount)
     IN  /\ accounts' = res.accounts
         /\ calls' = Append(calls, [op |-> "update_balance", username |-> None,
                                    trader_id |-> trader_id, amount |-> amount,
                                    found |-> None,
                                    status |-> IF res.ok THEN "returned"
                                               ELSE "raised"])
  /\ UNCHANGED <<order_book, orders, submitted, pc, lock, clock, generated,
                 executed_trades, db_orders, active_connections, loop_queue,
                 in_flight, received>>

NextAccounts ==
  \/ \E username \in Usernames : create_trader_enter(username)
  \/ \E k \in 1..MaxCalls : create_trader_return(k)
  \/ \E username \in Usernames : manager_register_trader(username)
  \/ \E trader_id \in TraderIds, amount \in Amounts :
        manager_update_balance(trader_id, amount)

SpecAccounts == Init /\ [][NextAccounts]_vars

\* ---------------------------------------------------------------------------
\* properties
\* ---------------------------------------------------------------------------
\* the requests whose process_order call has returned
Returned == {r \in Requests : pc[r] \in {"settling", "done", "failed"}}

\* no process_order call is in progress
Idle == \A r \in Requests : pc[r] # "matching"

RECURSIVE FilledUpTo(_, _)
FilledUpTo(o, n) ==
  IF n = 0 THEN 0
  ELSE (IF generated[n].maker_order_id = o \/ generated[n].taker_order_id = o
        THEN generated[n].quantity ELSE 0) + FilledUpTo(o, n - 1)

\* the quantity of order o over all trades in which it is maker or taker
FilledQuantity(o) == FilledUpTo(o, Len(generated))

\* the quantity order o rests with, 0 when it is not in the book
RestingQuantity(o) == IF o \in BookIds(order_book) THEN orders[o].quantity ELSE 0

\* the trader of the taker and of the maker of a trade
TakerTrader(trade) == submitted[trade.taker_order_id].trader_id
MakerTrader(trade) == submitted[trade.maker_order_id].trader_id

\* C1. Conservation: for every order whose process_order call has returned,
\* the quantity filled over all its trades plus the quantity it rests with
\* (0 when it is not in the book) is the quantity it was submitted with; for
\* the order being matched the same holds of its remaining quantity.
Conservation ==
  /\ \A o \in Returned :
       FilledQuantity(o) + RestingQuantity(o) = submitted[o].quantity
  /\ \A o \in Requests :
       pc[o] = "matching" => FilledQuantity(o) + orders[o].quantity = submitted[o].quantity

\* an order rests partly filled, and another one was filled completely
ConservationWitness ==
  /\ \E o \in Returned : o \in BookIds(order_book) /\ FilledQuantity(o) > 0
  /\ \E o \in Returned : o \notin BookIds(order_book)
                          /\ FilledQuantity(o) = submitted[o].quantity

\* C2. No self-trade: the maker and the taker of every trade belong to
\* different traders.
NoSelfTrade ==
  \A i \in 1..Len(generated) : MakerTrader(generated[i]) # TakerTrader(generated[i])

\* a trade was made at a level where an earlier order of the taker's own trader
\* rests untouched
NoSelfTradeWitness ==
  \E i \in 1..Len(generated) : \E o \in BookIds(order_book) :
    /\ o < generated[i].taker_order_id
    /\ orders[o].trader_id = TakerTrader(generated[i])
    /\ orders[o].side # generated[i].taker_side
    /\ orders[o].price = generated[i].price
    /\ orders[o].quantity = submitted[o].quantity

\* the orders at the best bid and at the best ask
BestLevelIds(book) ==
  Range(book.bids[0 - best_bid(book)]) \cup Range(book.asks[best_ask(book)])

\* C3. Book non-crossing: when no process_order call is in progress and both
\* sides hold orders, best_bid < best_ask, unless the orders that cross at the
\* best prices all belong to one trader.
NonCrossing ==
  (Idle /\ best_bid(order_book) # None /\ best_ask(order_book) # None) =>
     \/ best_bid(order_book) < best_ask(order_book)
     \/ \E t \in Traders : \A o \in BestLevelIds(order_book) : orders[o].trader_id = t

\* the trade a step has just generated
NewTrade == generated'[Len(generated')]

\* C4. Price priority: when a BUY taker trades at price p, the book holds no
\* ask of another trader below p; when a SELL taker trades at p, no bid of
\* another trader above p.
PricePriority ==
  [][Len(generated') > Len(generated) =>
       IF NewTrade.taker_side = BUY
       THEN \A o \in AskIds(order_book) :
              orders[o].trader_id # orders[NewTrade.taker_order_id].trader_id
                => orders[o].price >= NewTrade.price
       ELSE \A o \in BidIds(order_book) :
              orders[o].trader_id # orders[NewTrade.taker_order_id].trader_id
                => orders[o].price <= NewTrade.price]_vars

\* a taker has traded at the better of two opposite levels, the worse one
\* holding an order of another trader that was there before the taker came
PricePriorityWitness ==
  \E i \in 1..Len(generated) : \E o \in BookIds(order_book) :
    /\ o < generated[i].taker_order_id
    /\ orders[o].trader_id # TakerTrader(generated[i])
    /\ orders[o].side # generated[i].taker_side
    /\ IF generated[i].taker_side = BUY THEN orders[o].price > generated[i].price
                                        ELSE orders[o].price < generated[i].price
    /\ IF generated[i].taker_side = BUY
       THEN submitted[generated[i].taker_order_id].price >= orders[o].price
       ELSE submitted[generated[i].taker_order_id].price <= orders[o].price

\* C5. Time priority: the maker of a trade has the earliest timestamp among the
\* orders of the best opposite level whose trader is not the taker's.
TimePriority ==
  [][Len(generated') > Len(generated) =>
       LET level == IF NewTrade.taker_side = BUY
                    THEN order_book.asks[best_ask(order_book)]
                    ELSE order_book.bids[0 - best_bid(order_book)]
       IN  \A o \in Range(level) :
             orders[o].trader_id # orders[NewTrade.taker_order_id].trader_id
               => orders[NewTrade.maker_order_id].timestamp <= orders[o].timestamp]_vars

\* C6. Every trade's price is the price of its maker order.
TradeAtMakerPrice ==
  \A i \in 1..Len(generated) :
    generated[i].price = submitted[generated[i].maker_order_id].price

\* a BUY taker and a SELL taker have each traded at a price that is not their
\* own limit price
TradeAtMakerPriceWitness ==
  \A s \in Side : \E i \in 1..Len(generated) :
    /\ generated[i].taker_side = s
    /\ generated[i].price # submitted[generated[i].taker_order_id].price

\* C7. Mutual exclusion: at most one process_order call is in progress.
MutualExclusion == Cardinality({r \in Requests : pc[r] = "matching"}) <= 1

\* a request is in process_order while another one, past its checks, waits
\* for the lock
MutualExclusionWitness ==
  \E r, w \in Requests : pc[r] = "matching" /\ pc[w] = "checked" /\ lock = r

\* C8. Global trade ordering: every subscriber receives the trades in the
\* order in which process_order generated them.
BroadcastInOrder ==
  \A c \in Connections : \A i, j \in 1..Len(received[c]) :
    i < j => received[c][i] < received[c][j]

\* C9. The upstream checks are atomic with the matching call: while a request
\* has passed its checks and has not entered process_order, no other
\* request's matching changes the book and no settlement changes a balance.
ChecksAtomicWithMatching ==
  [][(\E r \in Requests : pc[r] = "checked" /\ pc'[r] = "checked") =>
       /\ order_book' = order_book
       /\ \A t \in DOMAIN accounts : accounts'[t].balance = accounts[t].balance]_vars

RECURSIVE NetUpTo(_, _)
NetUpTo(t, n) ==
  IF n = 0 THEN 0
  ELSE LET trade == generated[n]
           value == trade.price * trade.quantity
           buyer == IF trade.taker_side = BUY THEN TakerTrader(trade) ELSE MakerTrader(trade)
           seller == IF trade.taker_side = BUY THEN MakerTrader(trade) ELSE TakerTrader(trade)
       IN  (IF seller = t THEN value ELSE 0) - (IF buyer = t THEN value ELSE 0)
             + NetUpTo(t, n - 1)

\* C10. Settlement: once the request that made them has ended, every trade has
\* been settled exactly once: each balance is the initial balance, less
\* price x quantity of the trades the trader bought in, plus price x quantity
\* of the trades the trader sold in.
SettledExactlyOnce ==
  lock = 0 =>
    \A t \in DOMAIN accounts :
      accounts[t].balance = InitialBalance + NetUpTo(t, Len(generated))

\* the resting orders an incoming order could trade with: those of the
\* opposite side at its limit price or better
CrossedBy(r) ==
  IF orders[r].side = BUY
  THEN {o \in AskIds(order_book) : orders[o].price <= orders[r].price}
  ELSE {o \in BidIds(order_book) : orders[o].price >= orders[r].price}

\* the side of the book an order belongs to
OwnSide(book, order) == IF order.side = BUY THEN book.bids ELSE book.asks
OtherSide(book, order) == IF order.side = BUY THEN book.asks ELSE book.bids

\* book_after is book_before with order id r put at the back of the level
\* `key` of the side of `order`, and nothing else changed
RestsAtBack(book_before, book_after, order, key, r) ==
  LET before == OwnSide(book_before, order)
      after == OwnSide(book_after, order)
  IN  /\ OtherSide(book_after, order) = OtherSide(book_before, order)
      /\ DOMAIN after = (DOMAIN before) \cup {key}
      /\ \A k \in (DOMAIN before) \ {key} : after[k] = before[k]
      /\ after[key] = Append(IF key \in DOMAIN before THEN before[key] ELSE <<>>, r)

\* C11. process_order does not fail and a non-crossing order only rests: when
\* the loop condition holds the best level exists and holds an order; and
\* when the call of an order that no resting order of the opposite side
\* crosses (the opposite side may be empty) takes a step, that step is its
\* return: no trade is made, no order object changes, and the order is put at
\* the back of its own level with the quantity it was submitted with.
NonCrossingRestsFully ==
  [][\A r \in Requests :
       /\ (pc[r] = "matching" /\ orders[r].side = BUY
             /\ BuyLoopCondition(order_book, orders[r])) =>
            /\ best_ask(order_book) \in DOMAIN order_book.asks
            /\ order_book.asks[best_ask(order_book)] # <<>>
       /\ (pc[r] = "matching" /\ orders[r].side = SELL
             /\ SellLoopCondition(order_book, orders[r])) =>
            /\ (0 - best_bid(order_book)) \in DOMAIN order_book.bids
            /\ order_book.bids[0 - best_bid(order_book)] # <<>>
       /\ (pc[r] = "matching" /\ executed_trades[r] = <<>> /\ CrossedBy(r) = {}) =>
            /\ pc'[r] = "settling"
            /\ generated' = generated
            /\ executed_trades'[r] = <<>>
            /\ orders' = orders
            /\ orders[r].quantity = submitted[r].quantity
            /\ RestsAtBack(order_book, order_book', orders[r], PriceKey(submitted[r]), r)]_vars

\* an order whose call returned no trade rests with its full quantity behind
\* an earlier order of its level, while the opposite side holds orders
NonCrossingRestsFullyWitness ==
  \E r \in Requests :
    /\ pc[r] = "settling"
    /\ executed_trades[r] = <<>>
    /\ orders[r].quantity = submitted[r].quantity
    /\ OtherSide(order_book, orders[r]) # <<>>
    /\ LET level == OwnSide(order_book, orders[r])[PriceKey(orders[r])]
       IN  Len(level) > 1 /\ level[Len(level)] = r

\* the total quantity of a list of trades
RECURSIVE SumOfTrades(_)
SumOfTrades(trades) ==
  IF trades = <<>> THEN 0 ELSE Head(trades).quantity + SumOfTrades(Tail(trades))

\* how many times order id o is held by a side of the book
Occurrences(side_map, o) ==
  Cardinality({<<k, i>> \in (DOMAIN side_map) \X (1..MaxRequests) :
                 i <= Len(side_map[k]) /\ side_map[k][i] = o})

\* C12. When process_order has returned, the incoming order is in the book
\* exactly when its remaining quantity is above 0; the order that rests is
\* the submitted object (same order_id, same timestamp), held once, on its own
\* side and at the level of its own limit price, and its quantity is the
\* submitted quantity less the quantities of the trades the call returned.
RemainderRests ==
  \A r \in Requests :
    pc[r] = "settling" =>
      /\ r \in BookIds(order_book) <=> orders[r].quantity > 0
      /\ orders[r].quantity = submitted[r].quantity - SumOfTrades(executed_trades[r])
      /\ r \in BookIds(order_book) =>
           /\ orders[r].order_id = submitted[r].order_id
           /\ orders[r].timestamp = submitted[r].timestamp
           /\ Occurrences(OwnSide(order_book, submitted[r]), r) = 1
           /\ Occurrences(OtherSide(order_book, submitted[r]), r) = 0
           /\ PriceKey(submitted[r]) \in DOMAIN OwnSide(order_book, submitted[r])
           /\ r \in Range(OwnSide(order_book, submitted[r])[PriceKey(submitted[r])])

\* an order rests with the part of its quantity its trades left
RemainderRestsWitness ==
  \E r \in Requests :
    /\ pc[r] = "settling"
    /\ executed_trades[r] # <<>>
    /\ r \in BookIds(order_book)
    /\ orders[r].quantity < submitted[r].quantity

\* every OrderRequest a caller can hand to remove_order
AnyOrder ==
  [order_id : Requests, timestamp : {0}, trader_id : Traders, side : Side,
   priority : Priority, price : Prices, quantity : Quantities]

\* the orders a direct remove_order call has taken out of the book: made,
\* never filled completely, and not resting
Removed ==
  {o \in DOMAIN orders : /\ pc[o] \in {"added", "settling"}
                         /\ orders[o].quantity > 0
                         /\ o \notin BookIds(order_book)}

\* C13. Idempotent removal: remove_order with an order whose order_id the
\* book does not hold leaves the book as it is, and a second remove_order
\* with the same order leaves the book as the first one left it.
IdempotentRemoval ==
  \A order \in AnyOrder :
    /\ order.order_id \notin BookIds(order_book) =>
         remove_order(order_book, order) = order_book
    /\ remove_order(remove_order(order_book, order), order)
         = remove_order(order_book, order)

\* two orders have been removed, one whose level went with it and one whose
\* level still holds another order
IdempotentRemovalWitness ==
  \E a \in Removed, b \in Removed :
    /\ PriceKey(orders[a]) \notin DOMAIN OwnSide(order_book, orders[a])
    /\ PriceKey(orders[b]) \in DOMAIN OwnSide(order_book, orders[b])

\* a sequence without the entries equal to x
Without(s, x) == SelectSeq(s, LAMBDA y : y # x)

\* C14. remove_order with a copy of a resting order, whatever quantity the
\* copy carries, takes exactly that order out of the level of its side and
\* price: the other side and the other levels stay as they are, the level
\* keeps its other orders in their order, and the level's key is deleted
\* exactly when the order was its last one.
RemovesExactlyThatOrder ==
  \A o \in BookIds(order_book) : \A q \in Quantities :
    LET copy == [orders[o] EXCEPT !.quantity = q]
        book_after == remove_order(order_book, copy)
        key == PriceKey(orders[o])
        before == OwnSide(order_book, orders[o])
        after == OwnSide(book_after, orders[o])
    IN  /\ OtherSide(book_after, orders[o]) = OtherSide(order_book, orders[o])
        /\ BookIds(book_after) = BookIds(order_book) \ {o}
        /\ \A k \in (DOMAIN before) \ {key} : k \in DOMAIN after /\ after[k] = before[k]
        /\ IF before[key] = <<o>>
           THEN DOMAIN after = (DOMAIN before) \ {key}
           ELSE DOMAIN after = DOMAIN before /\ after[key] = Without(before[key], o)

\* an order was removed from between two orders of its level, which rest on
\* in their order
RemovesExactlyThatOrderWitness ==
  \E o \in Removed : \E a \in BookIds(order_book), b \in BookIds(order_book) :
    /\ a < o /\ o < b
    /\ PriceKey(orders[o]) \in DOMAIN OwnSide(order_book, orders[o])
    /\ OwnSide(order_book, orders[o])[PriceKey(orders[o])] = <<a, b>>

\* C15. add_order puts the order at the back of the level of its price on the
\* side of its side (bids for BUY, asks for SELL), creating the level when
\* the side has none at that price, and changes no other level, no other
\* side and no order object; this holds of a direct add_order call and of the
\* add_order call process_order makes for a remainder.
AddOrderAtBack ==
  [][\A r \in Requests :
       ((pc[r] = "new" /\ pc'[r] = "added")
          \/ (pc[r] = "matching" /\ pc'[r] = "settling" /\ orders[r].quantity > 0)) =>
       /\ RestsAtBack(order_book, order_book', orders'[r],
                      IF orders'[r].side = BUY THEN 0 - orders'[r].price
                      ELSE orders'[r].price, r)
       /\ \A x \in DOMAIN orders : orders'[x] = orders[x]]_vars

\* a direct add_order call put an order behind an earlier one of its level,
\* and another one made a level on the other side
AddOrderAtBackWitness ==
  \E a \in BookIds(order_book), b \in BookIds(order_book), c \in BookIds(order_book) :
    /\ pc[b] = "added" /\ pc[c] = "added"
    /\ a < b
    /\ OwnSide(order_book, orders[b])[PriceKey(orders[b])] = <<a, b>>
    /\ orders[c].side # orders[b].side
    /\ OwnSide(order_book, orders[c])[PriceKey(orders[c])] = <<c>>

SetMax(S) == CHOOSE x \in S : \A y \in S : y <= x

\* the prices of the resting orders of each side
BidPrices == {orders[o].price : o \in BidIds(order_book)}
AskPrices == {orders[o].price : o \in AskIds(order_book)}

\* C16. best_bid is the highest price among the resting BUY orders and
\* best_ask the lowest price among the resting SELL orders; each is None
\* exactly when its side holds no order.
BestPrices ==
  /\ best_bid(order_book) = None <=> BidIds(order_book) = {}
  /\ best_ask(order_book) = None <=> AskIds(order_book) = {}
  /\ BidIds(order_book) # {} => best_bid(order_book) = SetMax(BidPrices)
  /\ AskIds(order_book) # {} => best_ask(order_book) = SetMin(AskPrices)

\* one side holds orders at two prices while the other side holds an order
BestPricesWitness ==
  \/ Cardinality(BidPrices) > 1 /\ AskIds(order_book) # {}
  \/ Cardinality(AskPrices) > 1 /\ BidIds(order_book) # {}

\* the sum of the current quantities of a set of orders
RECURSIVE QuantityOf(_)
QuantityOf(ids) ==
  IF ids = {} THEN 0
  ELSE LET o == CHOOSE x \in ids : TRUE
       IN  orders[o].quantity + QuantityOf(ids \ {o})

\* C17. get_best_bid_volume is the sum of the current quantities of the
\* resting BUY orders at the highest bid price and get_best_ask_volume the
\* sum over the resting SELL orders at the lowest ask price; each is None
\* when its side holds no order and above 0 otherwise.
BestVolumes ==
  /\ IF BidIds(order_book) = {}
     THEN get_best_bid_volume(order_book, orders) = None
     ELSE /\ get_best_bid_volume(order_book, orders) =
               QuantityOf({o \in BidIds(order_book) : orders[o].price = SetMax(BidPrices)})
          /\ get_best_bid_volume(order_book, orders) > 0
  /\ IF AskIds(order_book) = {}
     THEN get_best_ask_volume(order_book, orders) = None
     ELSE /\ get_best_ask_volume(order_book, orders) =
               QuantityOf({o \in AskIds(order_book) : orders[o].price = SetMin(AskPrices)})
          /\ get_best_ask_volume(order_book, orders) > 0

\* the best level of a side holds a partly filled order and a second order,
\* and the side has a worse level too or the other side holds an order
BestVolumesWitness ==
  \E o \in BookIds(order_book), x \in BookIds(order_book) :
    /\ o # x
    /\ orders[o].quantity < submitted[o].quantity
    /\ orders[x].side = orders[o].side /\ orders[x].price = orders[o].price
    /\ orders[x].quantity = MaxQuantity
    /\ orders[o].price = (IF orders[o].side = BUY THEN best_bid(order_book)
                          ELSE best_ask(order_book))

\* C18. Side invariant: every order held in bids is a BUY order and every
\* order held in asks is a SELL order, and each is in the level keyed by its
\* own price (negated on the bid side).
SideInvariant ==
  /\ \A k \in DOMAIN order_book.bids : \A i \in 1..Len(order_book.bids[k]) :
       /\ orders[order_book.bids[k][i]].side = BUY
       /\ orders[order_book.bids[k][i]].price = 0 - k
  /\ \A k \in DOMAIN order_book.asks : \A i \in 1..Len(order_book.asks[k]) :
       /\ orders[order_book.asks[k][i]].side = SELL
       /\ orders[order_book.asks[k][i]].price = k

\* the book holds a BUY and a SELL order, one put there by add_order and one
\* by process_order
SideInvariantWitness ==
  \E b \in BidIds(order_book), a \in AskIds(order_book) :
    {pc[a], pc[b]} = {"added", "settling"}

\* the orders that were filled completely while they rested
FilledMakers ==
  {o \in DOMAIN orders : /\ orders[o].quantity = 0
                         /\ \E i \in 1..Len(generated) : generated[i].maker_order_id = o}

\* C19. No empty levels: in every state of every sequence of add_order,
\* remove_order and process_order calls, every price key of bids and of asks
\* maps to a sequence that holds an order.
NoEmptyLevels ==
  /\ \A k \in DOMAIN order_book.bids : order_book.bids[k] # <<>>
  /\ \A k \in DOMAIN order_book.asks : order_book.asks[k] # <<>>

\* the last order of a level was filled completely by the engine and the last
\* order of another level was taken out by remove_order: both levels are gone
NoEmptyLevelsWitness ==
  /\ \E o \in FilledMakers : PriceKey(submitted[o]) \notin DOMAIN OwnSide(order_book, submitted[o])
  /\ \E o \in Removed : PriceKey(submitted[o]) \notin DOMAIN OwnSide(order_book, submitted[o])

\* C20. FIFO by timestamp: within every price level the orders are in the
\* order of their timestamps, the oldest at the front.
FifoByTimestamp ==
  /\ \A k \in DOMAIN order_book.bids :
       \A i \in 1..Len(order_book.bids[k]), j \in 1..Len(order_book.bids[k]) :
         i < j => orders[order_book.bids[k][i]].timestamp
                    <= orders[order_book.bids[k][j]].timestamp
  /\ \A k \in DOMAIN order_book.asks :
       \A i \in 1..Len(order_book.asks[k]), j \in 1..Len(order_book.asks[k]) :
         i < j => orders[order_book.asks[k][i]].timestamp
                    <= orders[order_book.asks[k][j]].timestamp

\* C21. Positive resting quantity: every order the book holds has a quantity
\* above 0, between process_order calls and between the iterations of a
\* matching loop alike, and an order whose quantity a fill has brought to 0
\* is held by no level of the book.
PositiveRestingQuantity ==
  /\ \A o \in BookIds(order_book) : orders[o].quantity > 0
  /\ \A o \in DOMAIN orders :
       orders[o].quantity = 0 =>
         /\ Occurrences(order_book.bids, o) = 0
         /\ Occurrences(order_book.asks, o) = 0

\* no call is in progress; a maker was filled completely by a call that went
\* on to fill a second maker in part, and that second maker rests
PositiveRestingQuantityWitness ==
  /\ Idle
  /\ \E i \in 1..Len(generated), j \in 1..Len(generated) :
       /\ i < j
       /\ generated[i].taker_order_id = generated[j].taker_order_id
       /\ orders[generated[i].maker_order_id].quantity = 0
       /\ generated[j].maker_order_id \in BookIds(order_book)
       /\ orders[generated[j].maker_order_id].quantity > 0

\* C22. Stable snapshot reads: while get_order_book holds the lock no
\* process_order call is in progress, the book it reads has no order at
\* quantity 0, no empty level and no taker with fills whose remainder does
\* not rest yet, and no step changes the book or a resting order.
StableSnapshot ==
  [][lock = Reader =>
       /\ \A r \in Requests : pc[r] # "matching"
       /\ \A o \in BookIds(order_book) : orders[o].quantity > 0
       /\ \A k \in DOMAIN order_book.bids : order_book.bids[k] # <<>>
       /\ \A k \in DOMAIN order_book.asks : order_book.asks[k] # <<>>
       /\ \A r \in DOMAIN orders :
            (executed_trades[r] # <<>> /\ orders[r].quantity > 0) =>
               r \in BookIds(order_book)
       /\ lock' = Reader =>
            /\ order_book' = order_book
            /\ \A o \in BookIds(order_book) : orders'[o] = orders[o]]_vars

\* get_order_book reads a book with a partly filled order while a request
\* that has passed its checks waits for the lock
StableSnapshotWitness ==
  /\ lock = Reader
  /\ \E w \in Requests : pc[w] = "checked"
  /\ \E o \in BookIds(order_book) : orders[o].quantity < submitted[o].quantity

\* the resting orders of the side opposite to order r, and those of them at
\* the best price of that side
OppositeIds(r) ==
  IF orders[r].side = BUY THEN AskIds(order_book) ELSE BidIds(order_book)

BestOpposite(r) ==
  IF orders[r].side = BUY
  THEN {o \in OppositeIds(r) : \A x \in OppositeIds(r) : orders[o].price <= orders[x].price}
  ELSE {o \in OppositeIds(r) : \A x \in OppositeIds(r) : orders[o].price >= orders[x].price}

\* the best opposite level crosses the price of order r and holds only
\* orders of r's own trader
OnlyOwnAtBest(r) ==
  /\ BestOpposite(r) \cap CrossedBy(r) # {}
  /\ \A o \in BestOpposite(r) : orders[o].trader_id = orders[r].trader_id

\* C23. Matching halts at the best opposite level: when that level crosses
\* the incoming price and every order of it belongs to the incoming order's
\* trader, the call makes no further trade, whatever the worse levels hold:
\* its next step is its return, and a remainder rests.
HaltsAtBestLevel ==
  [][\A r \in Requests :
       (pc[r] = "matching" /\ OnlyOwnAtBest(r)) =>
         /\ generated' = generated
         /\ pc'[r] = "settling"
         /\ orders'[r] = orders[r]
         /\ orders[r].quantity > 0 => r \in BookIds(order_book')]_vars

\* a call has returned and its remainder rests although a worse opposite
\* level that crosses holds an order of another trader, the best opposite
\* level holding the trader's own orders only
HaltsAtBestLevelWitness ==
  \E r \in Requests :
    /\ pc[r] = "settling"
    /\ r \in BookIds(order_book)
    /\ OnlyOwnAtBest(r)
    /\ \E x \in CrossedBy(r) \ BestOpposite(r) : orders[x].trader_id # orders[r].trader_id

\* the level of the book that holds, or would hold, an order
LevelOf(book, order) ==
  IF PriceKey(order) \in DOMAIN OwnSide(book, order)
  THEN OwnSide(book, order)[PriceKey(order)] ELSE <<>>

\* C24. The self-trade skip is non-destructive: a fill leaves the level of
\* its maker as it was but for the maker itself; the orders the scan passed
\* over (all other orders of the level, too) stay in the level, in their
\* order, and their objects are not changed.
SkipIsNonDestructive ==
  [][Len(generated') > Len(generated) =>
       LET maker == orders[NewTrade.maker_order_id]
           before == LevelOf(order_book, maker)
           after == LevelOf(order_book', maker)
       IN  /\ Without(after, maker.order_id) = Without(before, maker.order_id)
           /\ \A o \in Range(before) \ {maker.order_id} : orders'[o] = orders[o]]_vars

\* a maker was filled completely and removed from behind an order of the
\* taker's own trader, which rests on at that level with its full quantity
SkipIsNonDestructiveWitness ==
  \E i \in 1..Len(generated) : \E o \in BookIds(order_book) :
    LET maker == orders[generated[i].maker_order_id]
    IN  /\ maker.quantity = 0
        /\ o < maker.order_id
        /\ orders[o].side = maker.side /\ orders[o].price = maker.price
        /\ orders[o].trader_id = TakerTrader(generated[i])
        /\ orders[o].quantity = submitted[o].quantity

\* C25. Every trade records the order ids and the trader ids of its maker
\* and of its taker and the taker's side, and the trader ids can be read from
\* the trade by the settlement that follows.
TradeRecordsTraders ==
  \A i \in 1..Len(generated) :
    LET trade == generated[i]
    IN  /\ HasAttr(trade, "maker_order_id") /\ HasAttr(trade, "taker_order_id")
        /\ HasAttr(trade, "taker_side")
        /\ trade.taker_side = submitted[trade.taker_order_id].side
        /\ trade.maker_order_id \in DOMAIN submitted
        /\ submitted[trade.maker_order_id].side # trade.taker_side
        /\ HasAttr(trade, "maker_trader_id") /\ HasAttr(trade, "taker_trader_id")
        /\ trade.maker_trader_id = submitted[trade.maker_order_id].trader_id
        /\ trade.taker_trader_id = submitted[trade.taker_order_id].trader_id

\* the trader of order r is registered and active, and has the funds a BUY
\* order needs
Acceptable(r) ==
  /\ orders[r].trader_id \in DOMAIN accounts
  /\ accounts[orders[r].trader_id].active
  /\ orders[r].side = BUY =>
       orders[r].price * orders[r].quantity <= accounts[orders[r].trader_id].balance

\* C26. A submission the upstream checks reject (unknown trader, deactivated
\* account, BUY order that costs more than the balance) never reaches
\* process_order: the step that decides it changes neither the book, nor a
\* balance, nor the stored orders, nor the trades, and the request stays
\* rejected, with no stored order, no resting order and no trade.
RejectedLeavesNoTrace ==
  [][\A r \in Requests :
       /\ (pc[r] = "received" /\ pc'[r] # "received" /\ ~Acceptable(r)) =>
            /\ pc'[r] = "rejected"
            /\ order_book' = order_book
            /\ orders' = orders
            /\ accounts' = accounts
            /\ db_orders' = db_orders
            /\ generated' = generated
       /\ pc[r] = "rejected" =>
            /\ pc'[r] = "rejected"
            /\ r \notin BookIds(order_book)
            /\ r \notin DOMAIN db_orders
            /\ executed_trades[r] = <<>>
            /\ \A i \in 1..Len(generated) : generated[i].taker_order_id # r]_vars

\* three submissions were rejected: one of a trader that is not registered,
\* one of a deactivated account, and a BUY order of an active account that
\* costs more than its balance
RejectedLeavesNoTraceWitness ==
  \E a \in Requests, b \in Requests, c \in Requests :
    /\ pc[a] = "rejected" /\ pc[b] = "rejected" /\ pc[c] = "rejected"
    /\ orders[a].trader_id \notin DOMAIN accounts
    /\ orders[b].trader_id \in DOMAIN accounts
    /\ ~accounts[orders[b].trader_id].active
    /\ orders[b].price * orders[b].quantity <= InitialBalance
    /\ orders[c].trader_id \in DOMAIN accounts
    /\ orders[c].side = BUY
    /\ orders[c].price * orders[c].quantity > accounts[orders[c].trader_id].balance
    /\ c < b

\* C27. Every trade has the smaller of the two remaining quantities just
\* before the fill, at least 1; the taker and the maker both lose exactly
\* that quantity, so one of them is at 0 after the fill; a maker at 0 is out
\* of the book after the fill, and an order at 0 is never in the book.
FillIsMinimum ==
  [][/\ \A o \in DOMAIN orders : orders[o].quantity = 0 => o \notin BookIds(order_book)
     /\ Len(generated') > Len(generated) =>
          LET taker == NewTrade.taker_order_id
              maker == NewTrade.maker_order_id
          IN  /\ NewTrade.quantity = (IF orders[taker].quantity <= orders[maker].quantity
                                      THEN orders[taker].quantity
                                      ELSE orders[maker].quantity)
              /\ NewTrade.quantity >= 1
              /\ orders'[taker].quantity = orders[taker].quantity - NewTrade.quantity
              /\ orders'[maker].quantity = orders[maker].quantity - NewTrade.quantity
              /\ orders'[taker].quantity = 0 \/ orders'[maker].quantity = 0
              /\ orders'[maker].quantity = 0 => maker \notin BookIds(order_book')
              /\ orders'[maker].quantity > 0 => maker \in BookIds(order_book')]_vars

\* one fill left its taker at 0 and out of the book with its maker resting,
\* and another fill took its maker out at 0 and left its taker to rest
FillIsMinimumWitness ==
  \E i \in 1..Len(generated), j \in 1..Len(generated) :
    /\ orders[generated[i].taker_order_id].quantity = 0
    /\ pc[generated[i].taker_order_id] \in {"settling", "done", "failed"}
    /\ generated[i].quantity < submitted[generated[i].maker_order_id].quantity
    /\ orders[generated[j].maker_order_id].quantity = 0
    /\ generated[j].taker_order_id \in BookIds(order_book)
    /\ orders[generated[j].taker_order_id].quantity > 0

\* C28. Exhaustive matching: when the matching loop of a call has ended, the
\* incoming order is at quantity 0, or the opposite side holds no order, or
\* no order at the best opposite price crosses the incoming price, or every
\* order at the best opposite price belongs to the incoming order's trader.
MatchingIsExhaustive ==
  \A r \in Requests :
    pc[r] = "settling" =>
      \/ orders[r].quantity = 0
      \/ OppositeIds(r) = {}
      \/ BestOpposite(r) \cap CrossedBy(r) = {}
      \/ \A o \in BestOpposite(r) : orders[o].trader_id = orders[r].trader_id

\* a BUY order emptied the best ask level and went on to trade at the next
\* level, which still crossed its price
MatchingIsExhaustiveWitness ==
  \E r \in Requests :
    /\ pc[r] = "settling"
    /\ orders[r].side = BUY
    /\ Len(executed_trades[r]) > 1
    /\ executed_trades[r][1].price < executed_trades[r][Len(executed_trades[r])].price

\* the trades of generated whose taker is order r, in their order
TradesOf(r) == SelectSeq(generated, LAMBDA trade : trade.taker_order_id = r)

\* C29. Best price first: the list of a call holds its trades in the order
\* they were made, with prices that never fall for a BUY taker and never rise
\* for a SELL taker, and when a trade is made no order of the opposite side
\* rests at a price better than the trade's.
BestPriceFirst ==
  [][/\ \A r \in Requests :
          /\ executed_trades[r] = TradesOf(r)
          /\ \A i \in 1..Len(executed_trades[r]), j \in 1..Len(executed_trades[r]) :
               i < j => IF executed_trades[r][i].taker_side = BUY
                        THEN executed_trades[r][i].price <= executed_trades[r][j].price
                        ELSE executed_trades[r][i].price >= executed_trades[r][j].price
     /\ Len(generated') > Len(generated) =>
          IF NewTrade.taker_side = BUY
          THEN \A o \in AskIds(order_book) : orders[o].price >= NewTrade.price
          ELSE \A o \in BidIds(order_book) : orders[o].price <= NewTrade.price]_vars

\* a SELL order traded at the highest bid first and then at a lower bid
BestPriceFirstWitness ==
  \E r \in DOMAIN orders :
    /\ orders[r].side = SELL
    /\ Len(executed_trades[r]) > 1
    /\ executed_trades[r][1].price > executed_trades[r][Len(executed_trades[r])].price

\* the position of order id o in a level that holds it
PositionIn(level, o) == CHOOSE i \in 1..Len(level) : level[i] = o

\* C30. A partially filled maker keeps its place: a fill that leaves the
\* maker with a quantity above 0 changes no level of the book and nothing of
\* the maker but its quantity; and no step changes the relative order of two
\* orders that are at one level before it and in the book after it.
MakerKeepsPlace ==
  [][/\ Len(generated') > Len(generated) =>
          LET maker == NewTrade.maker_order_id
          IN  orders'[maker].quantity > 0 =>
                /\ order_book' = order_book
                /\ orders'[maker] =
                     [orders[maker] EXCEPT !.quantity = @ - NewTrade.quantity]
     /\ \A a \in BookIds(order_book), b \in BookIds(order_book) :
          LET before == LevelOf(order_book, orders[a])
              after == LevelOf(order_book', orders[a])
          IN  (/\ b \in Range(before)
               /\ PositionIn(before, a) < PositionIn(before, b)
               /\ a \in BookIds(order_book') /\ b \in BookIds(order_book')) =>
                 /\ a \in Range(after) /\ b \in Range(after)
                 /\ PositionIn(after, a) < PositionIn(after, b)]_vars

\* a maker that was filled in part rests at the front of its level, ahead of
\* a later order
MakerKeepsPlaceWitness ==
  \E i \in 1..Len(generated) :
    LET maker == generated[i].maker_order_id
        level == LevelOf(order_book, orders[maker])
    IN  /\ maker \in BookIds(order_book)
        /\ orders[maker].quantity < submitted[maker].quantity
        /\ Len(level) > 1
        /\ level[1] = maker

\* the mirror image of a price, of a side, of an order, of the heap of orders
\* and of a book: sides swapped, and prices reflected so that their order is
\* reversed
Reflect(p) == (MaxPrice + 1) - p

MirrorSide(s) == IF s = BUY THEN SELL ELSE BUY

MirrorOrder(o) == [o EXCEPT !.side = MirrorSide(@), !.price = Reflect(@)]

MirrorHeap(heap) == [x \in DOMAIN heap |-> MirrorOrder(heap[x])]

MirrorBook(book) ==
  [bids |-> [k \in {0 - Reflect(a) : a \in DOMAIN book.asks} |-> book.asks[Reflect(0 - k)]],
   asks |-> [k \in {Reflect(0 - b) : b \in DOMAIN book.bids} |-> book.bids[0 - Reflect(k)]]]

\* the maker the matching loop of the taker's side picks
MakerFor(book, taker_order, heap) ==
  IF taker_order.side = BUY THEN BuyMaker(book, taker_order, heap)
  ELSE SellMaker(book, taker_order, heap)

\* C31. BUY/SELL symmetry: every step of a process_order call is matched by
\* the same step of the call on the mirror image (sides swapped, prices
\* reflected): the loop goes on in both or in neither, with the same maker,
\* the same quantity and the reflected price, and the book after the step is
\* the mirror image of the book the mirrored step makes; so a sequence of
\* orders and its mirror image make the same trades and mirrored books.
MirrorSymmetry ==
  [][\A r \in Requests :
       pc[r] = "matching" =>
         LET taker == orders[r]
             mtaker == MirrorOrder(taker)
             mbook == MirrorBook(order_book)
             mheap == MirrorHeap(orders)
         IN  /\ LoopGoesOn(mbook, mtaker, mheap) = LoopGoesOn(order_book, taker, orders)
             /\ LoopGoesOn(order_book, taker, orders) =>
                  LET maker == MakerFor(order_book, taker, orders)
                      mmaker == MakerFor(mbook, mtaker, mheap)
                  IN  /\ mmaker = maker
                      /\ trade_quantity(mtaker, mheap[mmaker])
                           = trade_quantity(taker, orders[maker])
                      /\ TradePrice(mheap[mmaker], mtaker)
                           = Reflect(TradePrice(orders[maker], taker))
                      /\ MirrorBook(order_book') =
                           (IF orders'[maker].quantity = 0
                            THEN remove_order(mbook, MirrorOrder(orders'[maker]))
                            ELSE mbook)
             /\ ~LoopGoesOn(order_book, taker, orders) =>
                  /\ ShouldRest(mtaker) = ShouldRest(taker)
                  /\ MirrorBook(order_book') =
                       (IF ShouldRest(mtaker) THEN add_order(mbook, mtaker) ELSE mbook)]_vars

\* a BUY order and a SELL order have each traded and rest with a remainder,
\* and a trade was made behind an order of the taker's own trader
MirrorSymmetryWitness ==
  /\ \E i \in 1..Len(generated), j \in 1..Len(generated) :
       /\ generated[i].taker_side = BUY /\ generated[j].taker_side = SELL
       /\ orders[generated[i].taker_order_id].quantity > 0
       /\ generated[j].taker_order_id \in BookIds(order_book)
  /\ \E i \in 1..Len(generated) :
       \E o \in DOMAIN orders :
         /\ o < generated[i].maker_order_id
         /\ orders[o].trader_id = TakerTrader(generated[i])
         /\ orders[o].side # generated[i].taker_side
         /\ submitted[o].price = generated[i].price

\* the heap of orders with the priority of each order replaced by f's
Retag(heap, f) == [x \in DOMAIN heap |-> [heap[x] EXCEPT !.priority = f[x]]]

\* C32. The priority field has no influence: whatever priorities the orders
\* carry instead, every step of a process_order call decides the same (loop
\* goes on or ends, same maker), makes the same trade and leaves the same
\* book, the priority tags of the orders apart.
PriorityHasNoInfluence ==
  [][\A r \in Requests :
       pc[r] = "matching" =>
         \A f \in [DOMAIN orders -> PriorityValues] :
           LET heap == Retag(orders, f)
               taker == heap[r]
           IN  /\ LoopGoesOn(order_book, taker, heap)
                    = LoopGoesOn(order_book, orders[r], orders)
               /\ LoopGoesOn(order_book, orders[r], orders) =>
                    LET maker == MakerFor(order_book, taker, heap)
                        qty == trade_quantity(taker, heap[maker])
                        maker_after == [heap[maker] EXCEPT !.quantity = @ - qty]
                    IN  /\ maker = MakerFor(order_book, orders[r], orders)
                        /\ generated' = Append(generated, MakeTrade(heap[maker], taker))
                        /\ order_book' = (IF maker_after.quantity = 0
                                          THEN remove_order(order_book, maker_after)
                                          ELSE order_book)
                        /\ Retag(orders', f) =
                             [heap EXCEPT ![r].quantity = @ - qty,
                                          ![maker].quantity = @ - qty]
               /\ ~LoopGoesOn(order_book, orders[r], orders) =>
                    /\ ShouldRest(taker) = ShouldRest(orders[r])
                    /\ order_book' = (IF ShouldRest(taker) THEN add_order(order_book, taker)
                                      ELSE order_book)]_vars

\* a taker of high priority has traded with the first order of a level, of
\* low priority, while an order of high priority waits behind it
PriorityHasNoInfluenceWitness ==
  \E i \in 1..Len(generated) :
    \E o \in BookIds(order_book) :
      LET maker == generated[i].maker_order_id
          taker == generated[i].taker_order_id
      IN  /\ maker < o
          /\ orders[o].side = orders[maker].side
          /\ orders[o].price = orders[maker].price
          /\ orders[o].trader_id # orders[taker].trader_id
          /\ orders[maker].priority = 3
          /\ orders[o].priority = 1
          /\ orders[taker].priority = 1

\* the ids resting on the side of the book opposite to an order
OppositeOf(book, order) == IF order.side = BUY THEN AskIds(book) ELSE BidIds(book)

\* the makers of the trades of the call of r
MakersOf(r) ==
  {executed_trades[r][i].maker_order_id : i \in 1..Len(executed_trades[r])}

\* C33. process_order terminates: a call in progress returns; every step of
\* the call either ends it or makes one trade, the opposite side never gains
\* an order, and a trade takes its maker, which was resting on the opposite
\* side, out of the book or leaves the incoming order with quantity 0 (and
\* then the loop ends); so the trades of a call have distinct makers, all of
\* them resting opposite orders made before the call, and are at most as many
\* as those.
ProcessOrderTerminates ==
  /\ [][\A r \in Requests :
          pc[r] = "matching" =>
            LET before == OppositeOf(order_book, orders[r])
                after == OppositeOf(order_book', orders[r])
            IN  /\ after \subseteq before
                /\ generated' = generated => pc'[r] = "settling"
                /\ generated' # generated =>
                     LET trade == generated'[Len(generated')]
                     IN  /\ generated' = Append(generated, trade)
                         /\ executed_trades'[r] = Append(executed_trades[r], trade)
                         /\ trade.maker_order_id \in before
                         /\ \/ after = before \ {trade.maker_order_id}
                            \/ /\ orders'[r].quantity = 0
                               /\ ~LoopGoesOn(order_book', orders'[r], orders')]_vars
  /\ [](\A r \in DOMAIN orders :
          /\ Cardinality(MakersOf(r)) = Len(executed_trades[r])
          /\ \A m \in MakersOf(r) : m < r /\ orders[m].side # orders[r].side
          /\ Len(executed_trades[r])
               <= Cardinality({o \in DOMAIN orders : o < r /\ orders[o].side # orders[r].side}))
  /\ (\E r \in Requests : pc[r] = "matching") ~> (\A r \in Requests : pc[r] # "matching")

\* a call has returned after two trades, the first of which took its maker out
\* of the book and the second of which left the incoming order with quantity
\* 0 and its maker in the book
ProcessOrderTerminatesWitness ==
  \E r \in DOMAIN orders :
    /\ pc[r] = "settling"
    /\ Len(executed_trades[r]) = 2
    /\ orders[r].quantity = 0
    /\ executed_trades[r][1].maker_order_id \notin BookIds(order_book)
    /\ executed_trades[r][2].maker_order_id \in BookIds(order_book)

\* the call that the step has just made or finished, 0 when there is none
Finished ==
  IF \E k \in 1..Len(calls') :
       /\ calls'[k].status # "running"
       /\ k <= Len(calls) => calls[k].status = "running"
  THEN CHOOSE k \in 1..Len(calls') :
         /\ calls'[k].status # "running"
         /\ k <= Len(calls) => calls[k].status = "running"
  ELSE 0

\* C34. No balance is ever negative: update_balance for a trader that does
\* not exist, or with an amount that would make the balance negative, raises
\* and leaves every account as it was; any other call returns and sets the
\* balance of that trader to the old balance plus the amount (a balance of
\* exactly 0 is allowed) and leaves the other accounts as they were.
NoNegativeBalance ==
  /\ [](\A t \in DOMAIN accounts : accounts[t].balance >= 0)
  /\ [][(Finished # 0 /\ calls'[Finished].op = "update_balance") =>
          LET call == calls'[Finished]
              t == call.trader_id
          IN  IF t \notin DOMAIN accounts
              THEN call.status = "raised" /\ accounts' = accounts
              ELSE IF accounts[t].balance + call.amount < 0
              THEN call.status = "raised" /\ accounts' = accounts
              ELSE /\ call.status = "returned"
                   /\ accounts' = [accounts EXCEPT ![t].balance = @ + call.amount]]_vars

\* update_balance has raised for a trader that does not exist and for a debit
\* above the balance, and has returned for the debit that leaves exactly 0
NoNegativeBalanceWitness ==
  /\ \E k \in 1..Len(calls) :
       /\ calls[k].op = "update_balance" /\ calls[k].status = "raised"
       /\ calls[k].trader_id \notin DOMAIN accounts
  /\ \E k \in 1..Len(calls) :
       /\ calls[k].op = "update_balance" /\ calls[k].status = "raised"
       /\ calls[k].trader_id \in DOMAIN accounts
  /\ \E k \in 1..Len(calls) :
       /\ calls[k].op = "update_balance" /\ calls[k].status = "returned"
       /\ accounts[calls[k].trader_id].balance = 0

RECURSIVE SumBalances(_, _)
SumBalances(accs, ids) ==
  IF ids = {} THEN 0
  ELSE LET t == CHOOSE x \in ids : TRUE
       IN  accs[t].balance + SumBalances(accs, ids \ {t})

StoredOrdersTrackBook ==
  \A r \in DOMAIN orders :
    (/\ pc[r] = "done"
     /\ InFlight = {}
     /\ \A x \in DOMAIN orders : x <= r) =>
      \A o \in DOMAIN db_orders :
        /\ db_orders[o].remaining_quantity = RestingQuantity(o)
        /\ db_orders[o].status = (IF RestingQuantity(o) = 0 THEN "FILLED" ELSE "ACTIVE")

\* C38. The frame of process_order: a trade of the call leaves the incoming
\* order's own side as it was and changes, on the opposite side, only its
\* maker, whose quantity falls by the traded quantity and which leaves the
\* book exactly when that reaches 0, and the trade is in the list the call
\* returns; no other order changes; the return of the call leaves the
\* opposite side and every order as they were and puts the remainder of the
\* incoming order, if any, at the back of its level, changing nothing else.
ProcessOrderFrame ==
  [][\A r \in Requests :
       pc[r] = "matching" =>
         LET taker == orders[r]
             own == OwnSide(order_book, taker)
             other == OtherSide(order_book, taker)
             own_after == OwnSide(order_book', taker)
             other_after == OtherSide(order_book', taker)
         IN  /\ generated' # generated =>
                  LET trade == generated'[Len(generated')]
                      m == trade.maker_order_id
                  IN  /\ own_after = own
                      /\ executed_trades'[r] = Append(executed_trades[r], trade)
                      /\ m \in OppositeOf(order_book, taker)
                      /\ orders'[m] = [orders[m] EXCEPT !.quantity = @ - trade.quantity]
                      /\ orders'[r] = [taker EXCEPT !.quantity = @ - trade.quantity]
                      /\ \A o \in (DOMAIN orders) \ {r, m} : orders'[o] = orders[o]
                      /\ IF orders'[m].quantity > 0
                         THEN other_after = other
                         ELSE /\ DOMAIN other_after \subseteq DOMAIN other
                              /\ \A k \in DOMAIN other :
                                   IF Without(other[k], m) = <<>>
                                   THEN k \notin DOMAIN other_after
                                   ELSE /\ k \in DOMAIN other_after
                                        /\ other_after[k] = Without(other[k], m)
             /\ pc'[r] = "settling" =>
                  /\ orders' = orders
                  /\ generated' = generated
                  /\ other_after = other
                  /\ IF taker.quantity > 0
                     THEN RestsAtBack(order_book, order_book', taker, PriceKey(taker), r)
                     ELSE order_book' = order_book]_vars

\* a call has returned after a trade that took its maker out of the book, and
\* its remainder rests at the back of its level, behind an earlier order
ProcessOrderFrameWitness ==
  \E r \in Returned :
    /\ executed_trades[r] # <<>>
    /\ executed_trades[r][1].maker_order_id \notin BookIds(order_book)
    /\ r \in BookIds(order_book)
    /\ Len(LevelOf(order_book, orders[r])) >= 2
    /\ LevelOf(order_book, orders[r])[Len(LevelOf(order_book, orders[r]))] = r

\* C39. The limit price is respected: every trade of a BUY taker is at a
\* price at or below the price the taker was submitted with, every trade of a
\* SELL taker at a price at or above it, also when an order that a self-trade
\* block left resting has crossed the book.
LimitPriceRespected ==
  \A i \in 1..Len(generated) :
    LET trade == generated[i]
        limit == submitted[trade.taker_order_id].price
    IN  /\ trade.taker_side = BUY => trade.price <= limit
        /\ trade.taker_side = SELL => trade.price >= limit

\* a SELL taker has traded above its limit with a BUY order that had crossed
\* the book: an earlier SELL order of the maker's own trader, priced at or
\* below the maker, still rests
LimitPriceRespectedWitness ==
  \E i \in 1..Len(generated) :
    \E o \in AskIds(order_book) :
      LET trade == generated[i]
          maker == trade.maker_order_id
      IN  /\ trade.taker_side = SELL
          /\ trade.price > submitted[trade.taker_order_id].price
          /\ o < maker
          /\ orders[o].trader_id = orders[maker].trader_id
          /\ orders[o].price <= submitted[maker].price
          /\ orders[o].quantity = submitted[o].quantity

====
